---- MODULE Spec2Model ----
(***************************************************************************)
(* Model of the RAG agent: the hybrid retriever (app/retriever.py), the    *)
(* lazily built process-wide retriever and the answer pipeline             *)
(* (app/agent.py), the generation call (app/llm.py) and the price tool     *)
(* (app/tools/prices.py).                                                  *)
(*                                                                         *)
(* Strings are sequences of one-character strings.  Floats are integers    *)
(* counting 1/ScoreScale, every division rounding down.                    *)
(***************************************************************************)
EXTENDS Integers, Sequences, FiniteSets, TLC

\* ------------------------------------------------------------------------
\* Characters and strings
\* ------------------------------------------------------------------------
UpperChars == <<"A","B","C","D","E","F","G","H","I","J","K","L","M",
                "N","O","P","Q","R","S","T","U","V","W","X","Y","Z">>

LowerChars == <<"a","b","c","d","e","f","g","h","i","j","k","l","m",
                "n","o","p","q","r","s","t","u","v","w","x","y","z">>

Digits == <<"0","1","2","3","4","5","6","7","8","9">>

Range(s) == {s[i] : i \in 1..Len(s)}

UpperSet == Range(UpperChars)

LowerSet == Range(LowerChars)

DigitSet == Range(Digits)

LowerOf == [c \in UpperSet |-> LowerChars[CHOOSE i \in 1..Len(UpperChars) : UpperChars[i] = c]]

UpperOf == [c \in LowerSet |-> UpperChars[CHOOSE i \in 1..Len(LowerChars) : LowerChars[i] = c]]

\* str.lower() on one character
LowerChar(c) == IF c \in UpperSet THEN LowerOf[c] ELSE c

\* str.lower()
Lower(s) == [i \in 1..Len(s) |-> LowerChar(s[i])]

\* str.upper()
UpperChar(c) == IF c \in LowerSet THEN UpperOf[c] ELSE c

Upper(s) == [i \in 1..Len(s) |-> UpperChar(s[i])]

\* the class [a-z0-9] of the tokenizer's pattern
LowerAlnumSet == LowerSet \cup DigitSet

IsLowerAlnum(c) == c \in LowerAlnumSet

\* the class \w of the word-boundary patterns
WordCharSet == LowerSet \cup UpperSet \cup DigitSet \cup {"_"}

IsWordChar(c) == c \in WordCharSet

\* Python's str(n) for n >= 0
RECURSIVE ToStr(_)
ToStr(n) == IF n < 10 THEN <<Digits[n + 1]>>
            ELSE ToStr(n \div 10) \o <<Digits[(n % 10) + 1]>>

\* s[i:j] of Python, 0-based half-open, for 0 <= i
Slice(s, i, j) == SubSeq(s, i + 1, IF j > Len(s) THEN Len(s) ELSE j)

\* whether sub occurs in s starting at 1-based position i
OccursAt(s, sub, i) ==
    /\ i >= 1
    /\ i + Len(sub) - 1 <= Len(s)
    /\ \A j \in 1..Len(sub) : s[i + j - 1] = sub[j]

\* sub in s
Contains(s, sub) == \E i \in 1..(Len(s) + 1) : OccursAt(s, sub, i)

\* sep.join(parts)
RECURSIVE Join(_, _)
Join(parts, sep) ==
    IF Len(parts) = 0 THEN <<>>
    ELSE IF Len(parts) = 1 THEN parts[1]
    ELSE parts[1] \o sep \o Join(Tail(parts), sep)

\* whitespace as str.rstrip() sees it
IsSpace(c) == c \in {" ", "\n", "\t"}

\* str.rstrip()
RECURSIVE RStrip(_)
RStrip(s) == IF Len(s) > 0 /\ IsSpace(s[Len(s)]) THEN RStrip(SubSeq(s, 1, Len(s) - 1)) ELSE s

\* str.strip()
RECURSIVE LStrip(_)
LStrip(s) == IF Len(s) > 0 /\ IsSpace(s[1]) THEN LStrip(Tail(s)) ELSE s

Strip(s) == LStrip(RStrip(s))

\* ------------------------------------------------------------------------
\* Fixed-point arithmetic
\* ------------------------------------------------------------------------
\* one unit of a score is 1/ScoreScale
ScoreScale == 1000

\* round(ScoreScale * ln(n)) for n = 1..12
LnTable == <<0, 693, 1099, 1386, 1609, 1792, 1946, 2079, 2197, 2303, 2398, 2485>>

\* math.log(p / q)
Ln(p, q) == LnTable[p] - LnTable[q]

RECURSIVE SqrtBetween(_, _, _)
SqrtBetween(n, lo, hi) ==
    IF lo >= hi THEN lo
    ELSE LET mid == (lo + hi + 1) \div 2
         IN IF mid * mid <= n THEN SqrtBetween(n, mid, hi) ELSE SqrtBetween(n, lo, mid - 1)

\* math.sqrt of a sum of squared scores: the units of n are 1/ScoreScale^2
Sqrt(n) == SqrtBetween(n, 0, 8 * ScoreScale)

RECURSIVE SumSeq(_)
SumSeq(s) == IF Len(s) = 0 THEN 0 ELSE s[1] + SumSeq(Tail(s))

RECURSIVE SumOver(_, _)
SumOver(f, S) ==
    IF S = {} THEN 0
    ELSE LET x == CHOOSE y \in S : TRUE IN f[x] + SumOver(f, S \ {x})

MinSeq(s) == CHOOSE x \in Range(s) : \A y \in Range(s) : x <= y
MaxSeq(s) == CHOOSE x \in Range(s) : \A y \in Range(s) : x >= y

\* ------------------------------------------------------------------------
\* Tokenizer (retriever.py)
\* ------------------------------------------------------------------------
\* the end of the maximal run of [a-z0-9] that starts at i
RunEnd(s, i) ==
    CHOOSE j \in i..Len(s) :
        /\ \A m \in i..j : IsLowerAlnum(s[m])
        /\ (j = Len(s) \/ ~IsLowerAlnum(s[j + 1]))

\* re.findall(r"[a-z0-9]+(?:'[a-z0-9]+)?", s) from position i on
RECURSIVE FindTokens(_, _)
FindTokens(s, i) ==
    IF i > Len(s) THEN <<>>
    ELSE IF ~IsLowerAlnum(s[i]) THEN FindTokens(s, i + 1)
    ELSE LET j == RunEnd(s, i)
             e == IF j + 2 <= Len(s) /\ s[j + 1] = "'" /\ IsLowerAlnum(s[j + 2])
                  THEN RunEnd(s, j + 2) ELSE j
         IN <<SubSeq(s, i, e)>> \o FindTokens(s, e + 1)

tokenize(text) == FindTokens(Lower(text), 1)

\* Counter(toks)[term]
Count(toks, term) == Cardinality({i \in 1..Len(toks) : toks[i] = term})

\* ------------------------------------------------------------------------
\* The corpus store (data/index/corpus.jsonl) as HybridRetriever._load sees it
\* ------------------------------------------------------------------------
\* a line of corpus.jsonl that json.loads cannot parse
BadLine == [bad |-> TRUE]

IsBadLine(line) == "bad" \in DOMAIN line

\* ------------------------------------------------------------------------
\* TF-IDF statistics (retriever.py, _build_tfidf and _tfidf_query)
\* ------------------------------------------------------------------------
Terms(tokenized_corpus) == UNION {Range(tokenized_corpus[i]) : i \in 1..Len(tokenized_corpus)}

\* df_counter[term]: the number of chunks holding the term
DocFreq(tokenized_corpus, term) ==
    Cardinality({i \in 1..Len(tokenized_corpus) : term \in Range(tokenized_corpus[i])})

\* the chunk that first holds the term
FirstDoc(tokenized_corpus, term) ==
    CHOOSE i \in 1..Len(tokenized_corpus) :
        /\ term \in Range(tokenized_corpus[i])
        /\ \A j \in 1..(i - 1) : term \notin Range(tokenized_corpus[j])

\* self.idf
BuildIdf(tokenized_corpus) ==
    LET n_docs == IF Len(tokenized_corpus) > 1 THEN Len(tokenized_corpus) ELSE 1
    IN [term \in Terms(tokenized_corpus) |->
            Ln(n_docs + 1, DocFreq(tokenized_corpus, term) + 1) + ScoreScale]

\* self.vocab: the terms numbered in the order Counter.update(set(toks)) met
\* them.  The terms a chunk adds come in the iteration order of a set of
\* strings, which the language leaves open: every such numbering is possible.
VocabOrders(tokenized_corpus) ==
    LET T == Terms(tokenized_corpus)
    IN {v \in [T -> 0..(Cardinality(T) - 1)] :
            /\ \A s, t \in T : s # t => v[s] # v[t]
            /\ \A s, t \in T :
                FirstDoc(tokenized_corpus, s) < FirstDoc(tokenized_corpus, t) => v[s] < v[t]}

\* the L2-normalised TF-IDF vector of a token list, over the terms idf knows
TfidfVector(toks, idf) ==
    LET present == Range(toks) \cap DOMAIN idf
        raw == [term \in present |-> (Count(toks, term) * idf[term]) \div Len(toks)]
        sq == [term \in present |-> raw[term] * raw[term]]
        root == Sqrt(SumOver(sq, present))
        norm == IF root = 0 THEN ScoreScale ELSE root
    IN [term \in present |-> (raw[term] * ScoreScale) \div norm]

\* self.doc_tfidf
BuildDocTfidf(tokenized_corpus, idf) ==
    [i \in 1..Len(tokenized_corpus) |-> TfidfVector(tokenized_corpus[i], idf)]

_tfidf_query(self, query) ==
    LET toks == tokenize(query)
    IN IF Len(toks) = 0 THEN <<>> ELSE TfidfVector(toks, self.idf)

_cosine_sparse(a, b) ==
    IF DOMAIN a = {} \/ DOMAIN b = {} THEN 0
    ELSE LET x == IF Cardinality(DOMAIN a) > Cardinality(DOMAIN b) THEN b ELSE a
             y == IF Cardinality(DOMAIN a) > Cardinality(DOMAIN b) THEN a ELSE b
             shared == DOMAIN x \cap DOMAIN y
             prod == [term \in shared |-> x[term] * y[term]]
         IN SumOver(prod, shared) \div ScoreScale

\* ------------------------------------------------------------------------
\* BM25Okapi of rank_bm25, with its defaults k1 = 1.5, b = 0.75, epsilon = 0.25
\* ------------------------------------------------------------------------
NoBM25 == [present |-> FALSE, corpus_size |-> 0, total_len |-> 0, doc_len |-> <<>>, idf |-> <<>>]

BM25Okapi(tokenized_corpus) ==
    LET N == Len(tokenized_corpus)
        T == Terms(tokenized_corpus)
        raw == [term \in T |->
                    Ln(2 * N - 2 * DocFreq(tokenized_corpus, term) + 1,
                       2 * DocFreq(tokenized_corpus, term) + 1)]
        average_idf == SumOver(raw, T) \div Cardinality(T)
        eps == average_idf \div 4
    IN [present |-> TRUE,
        corpus_size |-> N,
        total_len |-> SumSeq([i \in 1..N |-> Len(tokenized_corpus[i])]),
        doc_len |-> [i \in 1..N |-> Len(tokenized_corpus[i])],
        idf |-> [term \in T |-> IF raw[term] < 0 THEN eps ELSE raw[term]]]

\* the score of chunk i for one query token: with avgdl = total_len / corpus_size,
\* idf * f * (k1 + 1) / (f + k1 * (1 - b + b * doc_len / avgdl))
BM25Term(bm25, toks, q) ==
    LET f == Count(toks, q)
        idf == IF q \in DOMAIN bm25.idf THEN bm25.idf[q] ELSE 0
    IN (idf * 20 * f * bm25.total_len)
         \div (8 * f * bm25.total_len + 3 * bm25.total_len + 9 * Len(toks) * bm25.corpus_size)

\* self.bm25.get_scores(query_tokens)
get_scores(bm25, tokenized_corpus, query_tokens) ==
    [i \in 1..bm25.corpus_size |->
        SumSeq([j \in 1..Len(query_tokens) |->
                    BM25Term(bm25, tokenized_corpus[i], query_tokens[j])])]

\* ------------------------------------------------------------------------
\* HybridRetriever (retriever.py)
\* ------------------------------------------------------------------------
\* the alpha agent.py passes, in units of 1/ScoreScale (0.65)
AgentAlpha == 650

\* HybridRetriever.__init__, up to its call of self._load()
NewRetriever(alpha) ==
    [alpha |-> alpha,
     chunks |-> <<>>,
     tokenized_corpus |-> <<>>,
     bm25 |-> NoBM25,
     vocab |-> <<>>,
     idf |-> <<>>,
     doc_tfidf |-> <<>>]

\* the position of the first line json.loads rejects, 0 when every line parses
FirstBadLine(lines) ==
    IF \E i \in 1..Len(lines) : IsBadLine(lines[i])
    THEN CHOOSE i \in 1..Len(lines) :
            IsBadLine(lines[i]) /\ \A j \in 1..(i - 1) : ~IsBadLine(lines[j])
    ELSE 0

\* the token lists _load builds when every line of the store parses
StoreTokenized(store) ==
    IF store.exists /\ store.readable /\ FirstBadLine(store.lines) = 0
    THEN [i \in 1..Len(store.lines) |-> tokenize(store.lines[i].text)]
    ELSE <<>>

\* HybridRetriever._load from the open of the corpus file on, _build_tfidf
\* included: the instance as it leaves the call, and whether the call raised.
\* vocab is the numbering of the terms that _build_tfidf met (one of
\* VocabOrders).  Opening a file that is absent or unreadable raises.
ReadCorpus(self, store, vocab) ==
    IF ~store.readable
    THEN [raised |-> TRUE, self |-> self]
    ELSE IF FirstBadLine(store.lines) # 0
    THEN [raised |-> TRUE,
          self |-> [self EXCEPT !.chunks =
                        self.chunks \o SubSeq(store.lines, 1, FirstBadLine(store.lines) - 1)]]
    ELSE LET chunks == self.chunks \o store.lines
             tc == [i \in 1..Len(chunks) |-> tokenize(chunks[i].text)]
             idf == BuildIdf(tc)
         IN [raised |-> FALSE,
             self |-> [self EXCEPT !.chunks = chunks,
                                   !.tokenized_corpus = tc,
                                   !.bm25 = IF Len(tc) > 0 THEN BM25Okapi(tc) ELSE NoBM25,
                                   !.idf = idf,
                                   !.vocab = vocab,
                                   !.doc_tfidf = BuildDocTfidf(tc, idf)]]

\* _load without the test for the corpus file's existence
_load_Unguarded(self, store, vocab) == ReadCorpus(self, store, vocab)

\* HybridRetriever._load: the instance as it leaves the call, and whether the
\* call raised.  An absent corpus file leaves the corpus empty.
_load(self, store, vocab) ==
    IF ~store.exists
    THEN [raised |-> FALSE,
          self |-> [self EXCEPT !.chunks = <<>>, !.tokenized_corpus = <<>>]]
    ELSE ReadCorpus(self, store, vocab)

\* 1 / 1e-9, the threshold of normalize
EpsInv == 1000000000

\* d < 1e-9 for a difference d counted in 1/unit
LessThanEpsAt(d, unit) ==
    d < (unit \div EpsInv) + (IF unit % EpsInv = 0 THEN 0 ELSE 1)

\* d < 1e-9 for a difference d counted in 1/ScoreScale
LessThanEps(d) == LessThanEpsAt(d, ScoreScale)

\* normalize with the test mx - mn < 1e-9 replaced by mx == mn
normalize_at_ExactTie(arr, unit) ==
    IF Len(arr) = 0 THEN arr
    ELSE LET mn == MinSeq(arr)
             mx == MaxSeq(arr)
         IN IF mx = mn
            THEN [i \in 1..Len(arr) |-> 0]
            ELSE [i \in 1..Len(arr) |-> ((arr[i] - mn) * ScoreScale) \div (mx - mn)]

\* normalize of search: min-max scaling to 0..1, of raw scores counted in
\* 1/unit; the result is counted in 1/ScoreScale
normalize_at(arr, unit) ==
    IF Len(arr) = 0 THEN arr
    ELSE LET mn == MinSeq(arr)
             mx == MaxSeq(arr)
         IN IF LessThanEpsAt(mx - mn, unit)
            THEN [i \in 1..Len(arr) |-> 0]
            ELSE [i \in 1..Len(arr) |-> ((arr[i] - mn) * ScoreScale) \div (mx - mn)]

\* normalize of search, of raw scores counted in 1/ScoreScale
normalize(arr) == normalize_at(arr, ScoreScale)

\* hybrid = self.alpha * bm25_n + (1.0 - self.alpha) * tfidf_n
Fuse(alpha, bm25_n, tfidf_n) ==
    [i \in 1..Len(bm25_n) |->
        (alpha * bm25_n[i] + (ScoreScale - alpha) * tfidf_n[i]) \div ScoreScale]

\* bm25_n, tfidf_n and hybrid of search, for a non-empty corpus
Scores(self, query) ==
    LET n == Len(self.chunks)
        bm25_scores == IF self.bm25.present
                       THEN get_scores(self.bm25, self.tokenized_corpus, tokenize(query))
                       ELSE [i \in 1..n |-> 0]
        q_vec == _tfidf_query(self, query)
        tfidf_scores == [i \in 1..Len(self.doc_tfidf) |-> _cosine_sparse(q_vec, self.doc_tfidf[i])]
        bm25_n == normalize(bm25_scores)
        tfidf_n == normalize(tfidf_scores)
    IN [bm25 |-> bm25_n,
        tfidf |-> tfidf_n,
        hybrid |-> Fuse(self.alpha, bm25_n, tfidf_n)]

\* the arrangements of 1..n
Arrangements(n) == {p \in [1..n -> 1..n] : \A i, j \in 1..n : i # j => p[i] # p[j]}

\* np.argsort(keys): ascending keys.  The default sort kind is not stable:
\* which of two equal keys comes first is up to the sort the build selects,
\* the same at every call.  ties ranks the positions for that choice (the
\* position of lower rank first); the stable sort is the rank i |-> i.
Argsort(keys, ties) ==
    CHOOSE p \in Arrangements(Len(keys)) :
        \A i, j \in 1..Len(keys) :
            i < j => \/ keys[p[i]] < keys[p[j]]
                     \/ (keys[p[i]] = keys[p[j]] /\ ties[p[i]] < ties[p[j]])

\* seq[:k] of Python
SliceTo(seq, k) ==
    IF k >= 0
    THEN SubSeq(seq, 1, IF k < Len(seq) THEN k ELSE Len(seq))
    ELSE SubSeq(seq, 1, IF Len(seq) + k > 0 THEN Len(seq) + k ELSE 0)

\* HybridRetriever.search, with ties the tie order of np.argsort
search(self, query, k, ties) ==
    IF Len(self.chunks) = 0 THEN <<>>
    ELSE LET sc == Scores(self, query)
             idxs == SliceTo(Argsort([i \in 1..Len(sc.hybrid) |-> 0 - sc.hybrid[i]], ties), k)
         IN [j \in 1..Len(idxs) |->
                [source |-> self.chunks[idxs[j]].source,
                 start |-> self.chunks[idxs[j]].start,
                 end |-> self.chunks[idxs[j]].end,
                 text |-> self.chunks[idxs[j]].text,
                 score |-> sc.hybrid[idxs[j]],
                 bm25 |-> sc.bm25[idxs[j]],
                 tfidf |-> sc.tfidf[idxs[j]]]]

\* ------------------------------------------------------------------------
\* Ordering of strings (sorted(...) of agent.py and prices.py)
\* ------------------------------------------------------------------------
\* the characters of the model's strings in the order of their code points
Ascii == <<"\t", "\n", " ", "!", "#", "$", "%", "&", "'", "(", ")", "*", "+", ",", "-", ".", "/">>
         \o Digits \o <<":", ";", "<", "=", ">", "?", "@">> \o UpperChars
         \o <<"[", "]", "^", "_">> \o LowerChars \o <<"{", "|", "}", "~">>

CodeOf == [c \in Range(Ascii) |-> CHOOSE i \in 1..Len(Ascii) : Ascii[i] = c]

Code(c) == CodeOf[c]

\* a < b for two strings
StrLess(a, b) ==
    \E i \in 1..Len(b) :
        /\ \A j \in 1..(i - 1) : j <= Len(a) /\ a[j] = b[j]
        /\ (i > Len(a) \/ Code(a[i]) < Code(b[i]))

\* sorted(S) for a set of strings
RECURSIVE Sorted(_)
Sorted(S) ==
    IF S = {} THEN <<>>
    ELSE LET m == CHOOSE x \in S : \A y \in S \ {x} : StrLess(x, y)
         IN <<m>> \o Sorted(S \ {m})

\* ------------------------------------------------------------------------
\* Routing (agent.py)
\* ------------------------------------------------------------------------
\* stands for the text of prompts/answer_system.txt
SYSTEM_PROMPT == <<"S", "Y", "S">>

PriceKeywords ==
    {<<"p", "r", "i", "c", "e">>, <<"c", "l", "o", "s", "e">>, <<"o", "p", "e", "n">>, <<"h", "i", "g", "h">>, <<"l", "o", "w">>, <<"l", "a", "s", "t">>, <<"l", "a", "t", "e", "s", "t">>,
     <<"c", "o", "m", "p", "a", "r", "e">>, <<"p", "e", "r", "f", "o", "r", "m", "a", "n", "c", "e">>, <<"r", "e", "t", "u", "r", "n">>, <<"p", "e", "r", "c", "e", "n", "t", "a", "g", "e">>, <<"p", "c", "t">>}

\* w stands in s at position i between two word boundaries
WordAt(s, w, i) ==
    /\ OccursAt(s, w, i)
    /\ IF i = 1 THEN TRUE ELSE ~IsWordChar(s[i - 1])
    /\ IF i + Len(w) > Len(s) THEN TRUE ELSE ~IsWordChar(s[i + Len(w)])

\* _is_price_query with the keywords searched as substrings, the word
\* boundaries left out
_is_price_query_Substring(q) ==
    LET ql == Lower(q)
    IN \E w \in PriceKeywords : Contains(ql, w)

\* bool(re.search(r"\b(price|...|pct)\b", q.lower()))
_is_price_query(q) ==
    LET ql == Lower(q)
    IN \E w \in PriceKeywords : \E i \in 1..Len(ql) : WordAt(ql, w, i)

\* ------------------------------------------------------------------------
\* Citation tags and the sanitizer (agent.py)
\* ------------------------------------------------------------------------
\* f"{r['source']}@{r['start']}:{r['end']}"
Tag(r) == r.source \o <<"@">> \o ToStr(r.start) \o <<":">> \o ToStr(r.end)

Bracket(tag) == <<"[">> \o tag \o <<"]">>

\* the position of the first "]" at or after i, 0 when there is none
NextClose(text, i) ==
    IF \E q \in i..Len(text) : text[q] = "]"
    THEN CHOOSE q \in i..Len(text) : text[q] = "]" /\ \A m \in i..(q - 1) : text[m] # "]"
    ELSE 0

\* re.finditer(r"\[([^\]]+)\]", text) from position i on: each match with its
\* span (0-based, end exclusive) and its group 1
RECURSIVE Bracketed(_, _)
Bracketed(text, i) ==
    IF i > Len(text) THEN <<>>
    ELSE IF /\ text[i] = "["
            /\ i + 1 <= Len(text)
            /\ text[i + 1] # "]"
            /\ NextClose(text, i + 1) # 0
    THEN LET q == NextClose(text, i + 1)
         IN <<[start |-> i - 1, end |-> q, inner |-> SubSeq(text, i + 1, q - 1)]>>
                \o Bracketed(text, q + 1)
    ELSE Bracketed(text, i + 1)

\* text[:a] + text[b:]
CutOut(text, a, b) ==
    SubSeq(text, 1, IF a < Len(text) THEN a ELSE Len(text)) \o SubSeq(text, b + 1, Len(text))

\* the loop of _clean_citations: every match was found in the text as it was
\* passed in, and each removal cuts the current text at that match's span
RECURSIVE RemoveInvalid(_, _, _)
RemoveInvalid(text, found, allowed_tags) ==
    IF Len(found) = 0 THEN text
    ELSE IF found[1].inner \in Range(allowed_tags)
    THEN RemoveInvalid(text, Tail(found), allowed_tags)
    ELSE RemoveInvalid(CutOut(text, found[1].start, found[1].end), Tail(found), allowed_tags)

\* re.finditer(r"\[(?:" + "|".join(map(re.escape, allowed_tags)) + ")\]", text)
\* yields a match
HasAllowed(text, allowed_tags) ==
    IF Len(allowed_tags) = 0 THEN Contains(text, <<"[", "]">>)
    ELSE \E i \in 1..Len(allowed_tags) : Contains(text, Bracket(allowed_tags[i]))

_clean_citations(text, allowed_tags, fallback_tags) ==
    IF Len(text) = 0 THEN text
    ELSE LET cleaned == RemoveInvalid(text, Bracketed(text, 1), allowed_tags)
         IN IF ~HasAllowed(cleaned, allowed_tags) /\ Len(fallback_tags) > 0
            THEN RStrip(cleaned) \o <<" ">>
                    \o Join([i \in 1..Len(fallback_tags) |-> Bracket(fallback_tags[i])], <<" ">>)
            ELSE cleaned

\* ------------------------------------------------------------------------
\* The price tool (tools/prices.py)
\* ------------------------------------------------------------------------
\* stands for the content of prices_stub/prices.json, keys upper-cased by
\* load_prices; a close is counted in tenths
PRICES ==
    [sym \in {<<"M", "S", "F", "T">>, <<"S", "P", "Y">>, <<"N", "E", "W">>} |->
        IF sym = <<"M", "S", "F", "T">>
        THEN <<[close |-> 100, date |-> <<"0", "6", "-", "2", "7">>], [close |-> 125, date |-> <<"0", "6", "-", "2", "8">>]>>
        ELSE IF sym = <<"S", "P", "Y">>
        THEN <<[close |-> 50, date |-> <<"0", "6", "-", "2", "7">>], [close |-> 40, date |-> <<"0", "6", "-", "2", "8">>]>>
        ELSE <<>>]

None == [none |-> TRUE]

Some(v) == [none |-> FALSE, val |-> v]

_get_series(symbol) ==
    IF Upper(symbol) \in DOMAIN PRICES THEN Some(PRICES[Upper(symbol)]) ELSE None

get_latest_close(symbol) ==
    LET series == _get_series(symbol)
    IN IF series.none \/ Len(series.val) = 0 THEN None
       ELSE Some(series.val[Len(series.val)])

get_latest_n(symbol, n) ==
    IF n <= 0 THEN Some(<<>>)
    ELSE LET series == _get_series(symbol)
         IN IF series.none \/ Len(series.val) = 0 THEN None
            ELSE Some(SubSeq(series.val,
                             IF Len(series.val) - n + 1 > 1 THEN Len(series.val) - n + 1 ELSE 1,
                             Len(series.val)))

\* n / d rounded to the nearest integer, d > 0
RoundDiv(n, d) == (2 * n + d) \div (2 * d)

\* compare_performance: the two returns and their difference, each already
\* multiplied by 100 and rounded to two decimals as _answer_price prints it
\* (counted in hundredths of a percent)
compare_performance(symbol_a, symbol_b, points) ==
    LET a == get_latest_n(symbol_a, points)
        b == get_latest_n(symbol_b, points)
    IN IF a.none \/ b.none THEN None
       ELSE IF Len(a.val) < 2 \/ Len(b.val) < 2 THEN None
       ELSE LET a0 == a.val[1].close
                a1 == a.val[Len(a.val)].close
                b0 == b.val[1].close
                b1 == b.val[Len(b.val)].close
            IN Some([a_return |-> IF a0 = 0 THEN 0 ELSE RoundDiv((a1 - a0) * 10000, a0),
                     b_return |-> IF b0 = 0 THEN 0 ELSE RoundDiv((b1 - b0) * 10000, b0),
                     relative |->
                        IF a0 = 0 /\ b0 = 0 THEN 0
                        ELSE IF a0 = 0 THEN RoundDiv((b0 - b1) * 10000, b0)
                        ELSE IF b0 = 0 THEN RoundDiv((a1 - a0) * 10000, a0)
                        ELSE RoundDiv(((a1 - a0) * b0 - (b1 - b0) * a0) * 10000, a0 * b0)])

list_symbols == Sorted(DOMAIN PRICES)

\* str(x) of a float counted in tenths
TenthsStr(x) == ToStr(x \div 10) \o <<".">> \o ToStr(x % 10)

\* str(x) of a float with at most two decimals, counted in hundredths
HundredthsStr(x) ==
    LET m == IF x < 0 THEN 0 - x ELSE x
        frac == m % 100
    IN (IF x < 0 THEN <<"-">> ELSE <<>>) \o ToStr(m \div 100) \o <<".">>
        \o (IF frac % 10 = 0 THEN ToStr(frac \div 10)
            ELSE ToStr(frac \div 10) \o ToStr(frac % 10))

\* ------------------------------------------------------------------------
\* The price path (agent.py)
\* ------------------------------------------------------------------------
IsUpper(c) == c \in UpperSet

LetterSet == UpperSet \cup LowerSet

IsLetter(c) == c \in LetterSet

IsDigit(c) == c \in DigitSet

\* the length of the maximal run of letters at i: upper-case ones only,
\* or of either case under re.IGNORECASE
LetterRun(s, i, ignorecase) ==
    LET ok(c) == IF ignorecase THEN IsLetter(c) ELSE IsUpper(c)
    IN Cardinality({j \in i..Len(s) : \A m \in i..j : ok(s[m])})

\* the length of the match of \b[A-Z]{2,10}\b at position i, 0 when none
SymbolAt(s, i, ignorecase) ==
    LET n == LetterRun(s, i, ignorecase)
    IN IF /\ i >= 1
          /\ i <= Len(s)
          /\ (IF i = 1 THEN TRUE ELSE ~IsWordChar(s[i - 1]))
          /\ n >= 2
          /\ n <= 10
          /\ (IF i + n > Len(s) THEN TRUE ELSE ~IsWordChar(s[i + n]))
       THEN n ELSE 0

\* [s for s in set(re.findall(r"\b[A-Z]{2,10}\b", q)) if s in known], as a set
_extract_symbols(q) ==
    {SubSeq(q, i, i + SymbolAt(q, i, FALSE) - 1) :
        i \in {j \in 1..Len(q) : SymbolAt(q, j, FALSE) > 0}} \cap Range(list_symbols)

\* re.search(prefix + r"(\b[A-Z]{2,10}\b)", q, re.IGNORECASE): group 1, or None
PrefixedSymbol(q, prefix) ==
    LET ql == Lower(q)
        hits == {p \in 1..Len(q) :
                    OccursAt(ql, prefix, p) /\ SymbolAt(q, p + Len(prefix), TRUE) > 0}
    IN IF hits = {} THEN None
       ELSE LET p == CHOOSE x \in hits : \A y \in hits : x <= y
            IN Some(SubSeq(q, p + Len(prefix),
                           p + Len(prefix) + SymbolAt(q, p + Len(prefix), TRUE) - 1))

\* int(digits)
RECURSIVE ParseInt(_)
ParseInt(ds) ==
    IF Len(ds) = 0 THEN 0
    ELSE 10 * ParseInt(SubSeq(ds, 1, Len(ds) - 1))
            + ((CHOOSE i \in 1..10 : Digits[i] = ds[Len(ds)]) - 1)

DigitRun(s, i) == Cardinality({j \in i..Len(s) : \A m \in i..j : IsDigit(s[m])})

SpaceRun(s, i) == Cardinality({j \in i..Len(s) : \A m \in i..j : IsSpace(s[m])})

\* (\d+)\s*day matches at position d
DaysAt(s, d) ==
    /\ d <= Len(s)
    /\ IsDigit(s[d])
    /\ OccursAt(Lower(s), <<"d", "a", "y">>, d + DigitRun(s, d) + SpaceRun(s, d + DigitRun(s, d)))

\* re.search(r"compare (\b[A-Z]{2,10}\b) performance to (\b[A-Z]{2,10}\b).*?(\d+)\s*day",
\*           q, re.IGNORECASE): the three groups, or None
CompareMatch(q) ==
    LET ql == Lower(q)
        lit1 == <<"c", "o", "m", "p", "a", "r", "e", " ">>
        lit2 == <<" ", "p", "e", "r", "f", "o", "r", "m", "a", "n", "c", "e", " ", "t", "o", " ">>
        g1(p) == p + Len(lit1)
        n1(p) == SymbolAt(q, g1(p), TRUE)
        g2(p) == g1(p) + n1(p) + Len(lit2)
        n2(p) == SymbolAt(q, g2(p), TRUE)
        starts(p) == {d \in (g2(p) + n2(p))..Len(q) :
                        /\ DaysAt(q, d)
                        /\ \A m \in (g2(p) + n2(p))..(d - 1) : q[m] # "\n"}
        hits == {p \in 1..Len(q) :
                    /\ OccursAt(ql, lit1, p)
                    /\ n1(p) > 0
                    /\ OccursAt(ql, lit2, g1(p) + n1(p))
                    /\ n2(p) > 0
                    /\ starts(p) # {}}
    IN IF hits = {} THEN None
       ELSE LET p == CHOOSE x \in hits : \A y \in hits : x <= y
                d == CHOOSE x \in starts(p) : \A y \in starts(p) : x <= y
            IN Some([a |-> SubSeq(q, g1(p), g1(p) + n1(p) - 1),
                     b |-> SubSeq(q, g2(p), g2(p) + n2(p) - 1),
                     days |-> ParseInt(SubSeq(q, d, d + DigitRun(q, d) - 1))])

PRICE_SOURCE == <<"p", "r", "i", "c", "e", "s", "_", "s", "t", "u", "b", "/", "p", "r", "i", "c", "e", "s", ".", "j", "s", "o", "n">>

PRICE_TAG == <<"[", "p", "r", "i", "c", "e", "s", "_", "s", "t", "u", "b", "/", "p", "r", "i", "c", "e", "s", ".", "j", "s", "o", "n", "@", "0", ":", "0", "]">>

\* Citation(source=sources[0], start=0, end=0)
PriceCitation == [source |-> PRICE_SOURCE, start |-> 0, end |-> 0]

\* AnswerResponse with its Metrics
Response(answer, citations, sources, retrieved_k, route, used_tools) ==
    [answer |-> answer,
     citations |-> citations,
     sources |-> sources,
     retrieved_k |-> retrieved_k,
     route |-> route,
     used_tools |-> used_tools]

\* the two returns of _answer_price for one symbol
LatestAnswer(sym) ==
    LET latest == get_latest_close(sym)
    IN IF latest.none
       THEN Response(<<"N", "o", " ", "p", "r", "i", "c", "e", " ", "d", "a", "t", "a", " ", "a", "v", "a", "i", "l", "a", "b", "l", "e", " ", "f", "o", "r", " ">> \o sym \o <<".">>,
                     <<>>, <<PRICE_SOURCE>>, 0, "price", <<>>)
       ELSE Response(<<"L", "a", "t", "e", "s", "t", " ", "c", "l", "o", "s", "e", " ", "f", "o", "r", " ">> \o sym \o <<" ", "w", "a", "s", " ">> \o TenthsStr(latest.val.close)
                        \o <<" ", "o", "n", " ">> \o latest.val.date \o <<".", " ">> \o PRICE_TAG,
                     <<PriceCitation>>, <<PRICE_SOURCE>>, 1, "price", <<>>)

\* the compare branch of _answer_price
CompareAnswer(a, b, days) ==
    LET perf == compare_performance(a, b, days)
        msg == (IF get_latest_n(a, 2).none THEN <<a \o <<" ", "n", "o", "t", " ", "a", "v", "a", "i", "l", "a", "b", "l", "e">>>> ELSE <<>>)
                 \o (IF get_latest_n(b, 2).none THEN <<b \o <<" ", "n", "o", "t", " ", "a", "v", "a", "i", "l", "a", "b", "l", "e">>>> ELSE <<>>)
        detail == IF Len(msg) > 0 THEN Join(msg, <<",", " ">>) ELSE <<"i", "n", "s", "u", "f", "f", "i", "c", "i", "e", "n", "t", " ", "d", "a", "t", "a">>
    IN IF perf.none
       THEN Response(<<"C", "a", "n", "n", "o", "t", " ", "c", "o", "m", "p", "a", "r", "e", " ">> \o a \o <<" ", "v", "s", " ">> \o b \o <<":", " ">> \o detail \o <<".">>,
                     <<>>, <<PRICE_SOURCE>>, 0, "price", <<>>)
       ELSE Response(<<"O", "v", "e", "r", " ", "~">> \o ToStr(days) \o <<" ", "p", "o", "i", "n", "t", "s", ",", " ">> \o a \o <<" ", "r", "e", "t", "u", "r", "n", "e", "d", " ">>
                        \o HundredthsStr(perf.val.a_return) \o <<"%", ",", " ">> \o b \o <<" ", "r", "e", "t", "u", "r", "n", "e", "d", " ">>
                        \o HundredthsStr(perf.val.b_return) \o <<"%", " ", "(", "r", "e", "l", "a", "t", "i", "v", "e", " ">>
                        \o HundredthsStr(perf.val.relative) \o <<"%", " ", "f", "o", "r", " ">> \o a \o <<")", ".", " ">>
                        \o PRICE_TAG,
                     <<PriceCitation>>, <<PRICE_SOURCE>>, 1, "price", <<>>)

\* the symbols syms[0] can be: syms lists a set, in no fixed order
FirstSymbols(question) ==
    LET syms == _extract_symbols(Strip(question))
    IN IF syms = {} THEN {None} ELSE {Some(s) : s \in syms}

\* _answer_price, with first the value of syms[0] (None when syms is empty)
_answer_price(question, first) ==
    LET q == Strip(question)
        m_recent == PrefixedSymbol(q, <<"m", "o", "s", "t", " ", "r", "e", "c", "e", "n", "t", " ", "c", "l", "o", "s", "e", " ", "f", "o", "r", " ">>)
        m_last_price == PrefixedSymbol(q, <<"l", "a", "s", "t", " ", "p", "r", "i", "c", "e", " ", "f", "o", "r", " ">>)
        m_compare == CompareMatch(q)
    IN IF ~m_recent.none \/ ~m_last_price.none
       THEN LatestAnswer(Upper(IF ~m_recent.none THEN m_recent.val ELSE m_last_price.val))
       ELSE IF ~m_compare.none
       THEN CompareAnswer(Upper(m_compare.val.a), Upper(m_compare.val.b), m_compare.val.days)
       ELSE IF ~first.none
       THEN LatestAnswer(first.val)
       ELSE Response(<<"I", " ", "c", "a", "n", " ", "a", "n", "s", "w", "e", "r", " ", "p", "r", "i", "c", "e", " ", "q", "u", "e", "s", "t", "i", "o", "n", "s", " ", "f", "o", "r", " ", "a", "v", "a", "i", "l", "a", "b", "l", "e", " ", "s", "y", "m", "b", "o", "l", "s", ":", " ">>
                        \o Join(list_symbols, <<",", " ">>) \o <<".">>,
                     <<>>, <<PRICE_SOURCE>>, 0, "price", <<>>)

\* ------------------------------------------------------------------------
\* The generation call (llm.py)
\* ------------------------------------------------------------------------
\* llm.provider() and the presence of OPENAI_API_KEY (with the openai package)
LlmEnvs ==
    {[provider |-> "ollama", api_key |-> FALSE],
     [provider |-> "openai", api_key |-> TRUE],
     [provider |-> "off", api_key |-> FALSE]}

is_configured(env) == env.provider = "ollama" \/ env.api_key

\* the ways the provider call ends in an exception: requests.post timing out
\* or failing to connect, raise_for_status on a non-2xx answer, resp.json()
\* on a malformed body
GenFailures == {"timeout", "transport", "http_error", "malformed"}

\* what the provider call can do: fail, answer without content, or answer
\* with a text (here: texts with no tag, a valid tag, invalid tags before a
\* valid one, invalid tags only, and blanks)
GenOutcomes(allowed_tags) ==
    {[failure |-> f, content |-> None] : f \in GenFailures}
    \cup {[failure |-> "none", content |-> None]}
    \cup {[failure |-> "none", content |-> Some(text)] :
            text \in {<<>>,
                      <<" ", " ">>,
                      <<"o", "k", " ">>,
                      <<"o", "k", " ">> \o Bracket(allowed_tags[1]) \o <<"\n">>,
                      <<"[", "z", "z", "]", " ">> \o Bracket(allowed_tags[1]),
                      <<"a", " ", "[", "z", "z", "]", " ", "[", "y", "y", "]">>}}

\* synthesize_answer: (out or "").strip() when the provider call returns
synthesize_answer(outcome) ==
    IF outcome.failure # "none" THEN [raised |-> TRUE, text |-> <<>>]
    ELSE [raised |-> FALSE,
          text |-> IF outcome.content.none THEN <<>> ELSE Strip(outcome.content.val)]

\* ------------------------------------------------------------------------
\* The retrieval path of answer (agent.py)
\* ------------------------------------------------------------------------
NO_CONTEXT == <<"I", " ", "c", "o", "u", "l", "d", "n", "'", "t", " ", "f", "i", "n", "d", " ", "r", "e", "l", "e", "v", "a", "n", "t", " ", "c", "o", "n", "t", "e", "x", "t", " ", "i", "n", " ", "t", "h", "e", " ", "p", "r", "o", "v", "i", "d", "e", "d", " ", "d", "o", "c", "u", "m", "e", "n", "t", "s", ".">>

\* one citation per source: of the results of a source, the one that starts
\* first
CitationsOf_PerSource(results) ==
    LET First(r) == \A j \in 1..Len(results) :
                        results[j].source = r.source => results[j].start >= r.start
        kept == SelectSeq(results, First)
    IN [i \in 1..Len(kept) |->
            [source |-> kept[i].source, start |-> kept[i].start, end |-> kept[i].end]]

\* [Citation(source=r["source"], start=r["start"], end=r["end"]) for r in results]
CitationsOf(results) ==
    [i \in 1..Len(results) |->
        [source |-> results[i].source, start |-> results[i].start, end |-> results[i].end]]

\* sorted({r["source"] for r in results})
SourcesOf(results) == Sorted({results[i].source : i \in 1..Len(results)})

TagsOf(results) == [i \in 1..Len(results) |-> Tag(results[i])]

\* the answer text of the extractive branch
ExtractiveText(results) ==
    SYSTEM_PROMPT \o <<"\n", "\n">>
        \o Join([i \in 1..Len(results) |-> results[i].text], <<"\n", "\n">>)
        \o <<"\n", "\n">>
        \o Join([i \in 1..Len(results) |-> Bracket(Tag(results[i]))], <<" ">>)

\* the number of fallback tags answer passes on: allowed_tags[:3]
FallbackCount == 3

\* the return of answer when search found nothing
NoContextResult ==
    [raised |-> FALSE, gen_calls |-> 0,
     resp |-> Response(NO_CONTEXT, <<>>, <<>>, 0, "rag", <<"retriever">>)]

\* the branch of answer taken when llm.is_configured(): one generation call,
\* whose exception leaves answer, then the sanitizer
GeneratedResult(results, env, outcome) ==
    LET allowed_tags == TagsOf(results)
        out == synthesize_answer(outcome)
    IN IF out.raised
       THEN [raised |-> TRUE, gen_calls |-> 1, resp |-> None]
       ELSE [raised |-> FALSE, gen_calls |-> 1,
             resp |-> Response(_clean_citations(out.text, allowed_tags,
                                                SliceTo(allowed_tags, FallbackCount)),
                               CitationsOf(results), SourcesOf(results),
                               Len(results), "rag+llm",
                               <<"retriever", env.provider>>)]

\* the extractive branch of answer
ExtractiveResult(results) ==
    [raised |-> FALSE, gen_calls |-> 0,
     resp |-> Response(ExtractiveText(results), CitationsOf(results),
                       SourcesOf(results), Len(results), "rag", <<"retriever">>)]

\* answer that turns to the generator before it looks at the search results
RagAnswer_GenerateFirst(results, env, outcome) ==
    IF is_configured(env) THEN GeneratedResult(results, env, outcome)
    ELSE IF Len(results) = 0 THEN NoContextResult
    ELSE ExtractiveResult(results)

\* answer from the search results on: the response, or the exception that
\* leaves the call, and the number of generation calls made
RagAnswer(results, env, outcome) ==
    IF Len(results) = 0 THEN NoContextResult
    ELSE IF is_configured(env) THEN GeneratedResult(results, env, outcome)
    ELSE ExtractiveResult(results)

\* ------------------------------------------------------------------------
\* The inputs of the model
\* ------------------------------------------------------------------------
\* the number of chunks of the largest corpus
MaxChunks == 3

\* the number of threads that call answer
NThreads == 2

\* the number of calls of answer in one run
MaxCalls == 2

\* the largest of the small result counts asked for
MaxK == 2

\* the default of answer's k
DefaultK == 5

AllChunks ==
    <<[source |-> <<"a">>, start |-> 0, end |-> 6, text |-> <<"S", "p", "y", " ", "u", "p">>],
      [source |-> <<"b">>, start |-> 0, end |-> 3, text |-> <<"d", "o", "w">>],
      [source |-> <<"b">>, start |-> 3, end |-> 10, text |-> <<"d", "o", "w", " ", "u", "p", ".">>],
      [source |-> <<"c">>, start |-> 0, end |-> 3, text |-> <<"D", "o", "w">>]>>

Corpus(n) == SubSeq(AllChunks, 1, IF n < Len(AllChunks) THEN n ELSE Len(AllChunks))

\* the states of data/index/corpus.jsonl: absent, empty, unreadable, holding
\* a line that does not parse, holding one chunk, holding MaxChunks chunks
Stores ==
    {[exists |-> FALSE, readable |-> FALSE, lines |-> <<>>],
     [exists |-> TRUE, readable |-> TRUE, lines |-> <<>>],
     [exists |-> TRUE, readable |-> FALSE, lines |-> <<>>],
     [exists |-> TRUE, readable |-> TRUE, lines |-> Corpus(1) \o <<BadLine>>],
     [exists |-> TRUE, readable |-> TRUE, lines |-> Corpus(1)],
     [exists |-> TRUE, readable |-> TRUE, lines |-> Corpus(MaxChunks)]}

\* questions of the two routes: with no price keyword, with a keyword only
\* inside a longer word, with a keyword in either case, with symbols the price
\* tool knows (MSFT, SPY, NEW) and one it does not (XYZ)
Questions ==
    {<<"s", "p", "y", "?">>,
     <<"u", "p", " ", "d", "o", "w">>,
     <<"g", "o", "l", "d">>,
     <<"p", "r", "i", "c", "e", "s">>,
     <<"l", "a", "s", "t", " ", "p", "r", "i", "c", "e", " ", "f", "o", "r", " ", "M", "S", "F", "T">>,
     <<"c", "l", "o", "s", "e", " ", "o", "f", " ", "N", "E", "W", ",", " ", "S", "P", "Y">>,
     <<"L", "O", "W", "?">>,
     <<"p", "r", "i", "c", "e", " ", "o", "f", " ", "X", "Y", "Z">>,
     <<"l", "a", "s", "t", " ", "p", "r", "i", "c", "e", " ", "f", "o", "r", " ", "X", "Y", "Z">>,
     <<"m", "o", "s", "t", " ", "r", "e", "c", "e", "n", "t", " ", "c", "l", "o", "s", "e", " ", "f", "o", "r", " ", "X", "Y", "Z">>}

\* _is_price_query over the questions of the model
IsPriceQuestion == [q \in Questions |-> _is_price_query(q)]

Ks == {0 - 1} \cup (0..MaxK) \cup {DefaultK}

\* the calls answer(question, k) of the sequential runs
Requests == [question : Questions, k : Ks]

\* the calls of the concurrent runs
ConcRequests ==
    {[question |-> <<"s", "p", "y", "?">>, k |-> DefaultK],
     [question |-> <<"l", "a", "s", "t", " ", "p", "r", "i", "c", "e", " ", "f", "o", "r", " ", "M", "S", "F", "T">>, k |-> DefaultK]}

Threads == 1..NThreads

\* ------------------------------------------------------------------------
\* State
\* ------------------------------------------------------------------------
VARIABLES
    store,        \* the corpus store
    env,          \* the provider configuration
    _RETRIEVER,   \* agent._RETRIEVER: 0 for None, else a position of heap
    heap,         \* every HybridRetriever instance ever allocated
    constructed,  \* the instances whose __init__ has returned
    handed,       \* the instances _get_retriever has returned
    pc,           \* where each thread stands in answer
    req,          \* the call each thread is serving
    self,         \* the instance a thread is constructing (0: none)
    ret,          \* the value _get_retriever returned to the thread (0: none)
    results,      \* the list search returned to the thread
    resp,         \* the AnswerResponse returned to the thread, or None
    exc,          \* the exception that left answer in the thread, or "none"
    gen_calls,    \* the generation calls made by the thread's current call
    gen_failure,  \* how that generation call failed, or "none"
    argsort_ties, \* the tie order of the build's np.argsort
    calls,        \* the calls of answer begun so far
    scoring       \* the arrays of one run of the scoring lines of search

vars == <<store, env, _RETRIEVER, heap, constructed, handed, pc, req, self, ret,
          results, resp, exc, gen_calls, gen_failure, argsort_ties, calls, scoring>>

NoRequest == [question |-> <<>>, k |-> 0]

\* no run of the scoring lines on its own
NoScoring == [pc |-> "none"]

\* the process before its first request
InitServer ==
    /\ store \in Stores
    /\ env \in LlmEnvs
    /\ _RETRIEVER = 0
    /\ heap = <<>>
    /\ constructed = {}
    /\ handed = {}
    /\ pc = [t \in Threads |-> "idle"]
    /\ req = [t \in Threads |-> NoRequest]
    /\ self = [t \in Threads |-> 0]
    /\ ret = [t \in Threads |-> 0]
    /\ results = [t \in Threads |-> <<>>]
    /\ resp = [t \in Threads |-> None]
    /\ exc = [t \in Threads |-> "none"]
    /\ gen_calls = [t \in Threads |-> 0]
    /\ gen_failure = [t \in Threads |-> "none"]
    /\ argsort_ties \in Arrangements(Len(StoreTokenized(store)))
    /\ calls = 0

Init == InitServer /\ scoring = NoScoring

\* ------------------------------------------------------------------------
\* answer(question, k), one thread at a time between the points where the
\* threads can interleave
\* ------------------------------------------------------------------------
\* answer on a price question: the whole price branch
CallPrice(t, R) ==
    /\ pc[t] = "idle"
    /\ calls < MaxCalls
    /\ \E r \in R :
        /\ IsPriceQuestion[r.question]
        /\ \E first \in FirstSymbols(r.question) :
            resp' = [resp EXCEPT ![t] =
                        [_answer_price(r.question, first) EXCEPT !.used_tools = <<"prices_tool">>]]
        /\ req' = [req EXCEPT ![t] = r]
    /\ pc' = [pc EXCEPT ![t] = "done"]
    /\ calls' = calls + 1
    /\ UNCHANGED <<scoring, store, env, _RETRIEVER, heap, constructed, handed, self, ret,
                   results, exc, gen_calls, gen_failure, argsort_ties>>

\* answer on any other question: up to the call of _get_retriever, for at
\* most limit calls of answer in the run
CallRagUpTo(t, R, limit) ==
    /\ pc[t] = "idle"
    /\ calls < limit
    /\ \E r \in R :
        /\ ~IsPriceQuestion[r.question]
        /\ req' = [req EXCEPT ![t] = r]
    /\ pc' = [pc EXCEPT ![t] = "check"]
    /\ calls' = calls + 1
    /\ UNCHANGED <<scoring, store, env, _RETRIEVER, heap, constructed, handed, self, ret,
                   results, resp, exc, gen_calls, gen_failure, argsort_ties>>

CallRag(t, R) == CallRagUpTo(t, R, MaxCalls)

\* _get_retriever: if _RETRIEVER is None
GetCheck(t) ==
    /\ pc[t] = "check"
    /\ pc' = [pc EXCEPT ![t] = IF _RETRIEVER = 0 THEN "new" ELSE "return"]
    /\ UNCHANGED <<scoring, store, env, _RETRIEVER, heap, constructed, handed, req, self, ret,
                   results, resp, exc, gen_calls, gen_failure, argsort_ties, calls>>

\* HybridRetriever(alpha=0.65): the fields are set
New(t) ==
    /\ pc[t] = "new"
    /\ heap' = Append(heap, NewRetriever(AgentAlpha))
    /\ self' = [self EXCEPT ![t] = Len(heap) + 1]
    /\ pc' = [pc EXCEPT ![t] = "load"]
    /\ UNCHANGED <<scoring, store, env, _RETRIEVER, constructed, handed, req, ret,
                   results, resp, exc, gen_calls, gen_failure, argsort_ties, calls>>

\* HybridRetriever(alpha=0.65): self._load(); an exception leaves __init__,
\* _get_retriever and answer
Load(t) ==
    /\ pc[t] = "load"
    /\ \E vocab \in VocabOrders(StoreTokenized(store)) :
        LET out == _load(heap[self[t]], store, vocab)
        IN /\ heap' = [heap EXCEPT ![self[t]] = out.self]
           /\ IF out.raised
              THEN /\ pc' = [pc EXCEPT ![t] = "raised"]
                   /\ exc' = [exc EXCEPT ![t] = "corpus"]
                   /\ UNCHANGED constructed
              ELSE /\ pc' = [pc EXCEPT ![t] = "assign"]
                   /\ constructed' = constructed \cup {self[t]}
                   /\ UNCHANGED exc
    /\ UNCHANGED <<scoring, store, env, _RETRIEVER, handed, req, self, ret,
                   results, resp, gen_calls, gen_failure, argsort_ties, calls>>

\* _RETRIEVER = <the new instance>
Assign(t) ==
    /\ pc[t] = "assign"
    /\ _RETRIEVER' = self[t]
    /\ pc' = [pc EXCEPT ![t] = "return"]
    /\ UNCHANGED <<scoring, store, env, heap, constructed, handed, req, self, ret,
                   results, resp, exc, gen_calls, gen_failure, argsort_ties, calls>>

\* return _RETRIEVER
Return(t) ==
    /\ pc[t] = "return"
    /\ ret' = [ret EXCEPT ![t] = _RETRIEVER]
    /\ handed' = handed \cup {_RETRIEVER}
    /\ pc' = [pc EXCEPT ![t] = "search"]
    /\ UNCHANGED <<scoring, store, env, _RETRIEVER, heap, constructed, req, self,
                   results, resp, exc, gen_calls, gen_failure, argsort_ties, calls>>

\* a search whose sort orders equal keys anew at every call
Search_TiesPerCall(t) ==
    /\ pc[t] = "search"
    /\ \E ties \in Arrangements(Len(heap[ret[t]].chunks)) :
        results' = [results EXCEPT ![t] =
                        search(heap[ret[t]], req[t].question, req[t].k, ties)]
    /\ pc' = [pc EXCEPT ![t] = "compose"]
    /\ UNCHANGED <<scoring, store, env, _RETRIEVER, heap, constructed, handed, req, self, ret,
                   resp, exc, gen_calls, gen_failure, argsort_ties, calls>>

\* a search that keeps the tokens of its query in the index
Search_KeepsQuery(t) ==
    /\ pc[t] = "search"
    /\ results' = [results EXCEPT ![t] =
                        search(heap[ret[t]], req[t].question, req[t].k, argsort_ties)]
    /\ heap' = [heap EXCEPT ![ret[t]].tokenized_corpus =
                                Append(@, tokenize(req[t].question))]
    /\ pc' = [pc EXCEPT ![t] = "compose"]
    /\ UNCHANGED <<scoring, store, env, _RETRIEVER, constructed, handed, req, self, ret,
                   resp, exc, gen_calls, gen_failure, argsort_ties, calls>>

\* results = retriever.search(question, k=k)
Search(t) ==
    /\ pc[t] = "search"
    /\ results' = [results EXCEPT ![t] =
                        search(heap[ret[t]], req[t].question, req[t].k, argsort_ties)]
    /\ pc' = [pc EXCEPT ![t] = "compose"]
    /\ UNCHANGED <<scoring, store, env, _RETRIEVER, heap, constructed, handed, req, self, ret,
                   resp, exc, gen_calls, gen_failure, argsort_ties, calls>>

\* the rest of answer: the no-context answer, generation and sanitizing, or
\* the extractive answer
Compose(t) ==
    /\ pc[t] = "compose"
    /\ \E outcome \in IF Len(results[t]) > 0 /\ is_configured(env)
                      THEN GenOutcomes(TagsOf(results[t]))
                      ELSE {[failure |-> "none", content |-> None]} :
        LET out == RagAnswer(results[t], env, outcome)
        IN /\ gen_calls' = [gen_calls EXCEPT ![t] = out.gen_calls]
           /\ gen_failure' = [gen_failure EXCEPT ![t] =
                                IF out.gen_calls > 0 THEN outcome.failure ELSE "none"]
           /\ resp' = [resp EXCEPT ![t] = out.resp]
           /\ IF out.raised
              THEN /\ pc' = [pc EXCEPT ![t] = "raised"]
                   /\ exc' = [exc EXCEPT ![t] = outcome.failure]
              ELSE /\ pc' = [pc EXCEPT ![t] = "done"]
                   /\ UNCHANGED exc
    /\ UNCHANGED <<scoring, store, env, _RETRIEVER, heap, constructed, handed, req, self, ret,
                   results, argsort_ties, calls>>

\* the caller has its response or its exception; the thread is free again
Finish(t) ==
    /\ pc[t] \in {"done", "raised"}
    /\ pc' = [pc EXCEPT ![t] = "idle"]
    /\ req' = [req EXCEPT ![t] = NoRequest]
    /\ self' = [self EXCEPT ![t] = 0]
    /\ ret' = [ret EXCEPT ![t] = 0]
    /\ results' = [results EXCEPT ![t] = <<>>]
    /\ resp' = [resp EXCEPT ![t] = None]
    /\ exc' = [exc EXCEPT ![t] = "none"]
    /\ gen_calls' = [gen_calls EXCEPT ![t] = 0]
    /\ gen_failure' = [gen_failure EXCEPT ![t] = "none"]
    /\ UNCHANGED <<scoring, store, env, _RETRIEVER, heap, constructed, handed, argsort_ties, calls>>

\* the threads of the server, each serving calls one after the other
Next ==
    \E t \in Threads :
        \/ CallPrice(t, ConcRequests)
        \/ CallRag(t, ConcRequests)
        \/ GetCheck(t)
        \/ New(t)
        \/ Load(t)
        \/ Assign(t)
        \/ Return(t)
        \/ Search(t)
        \/ Compose(t)
        \/ Finish(t)

Spec == Init /\ [][Next]_vars

\* one thread serving calls one after the other, over all Requests
NextSeq ==
    \/ CallPrice(1, Requests)
    \/ CallRag(1, Requests)
    \/ GetCheck(1)
    \/ New(1)
    \/ Load(1)
    \/ Assign(1)
    \/ Return(1)
    \/ Search(1)
    \/ Compose(1)
    \/ Finish(1)

SpecSeq == Init /\ [][NextSeq]_vars

\* the number of calls of answer in a run of concurrent searches
MaxSearches == 3

\* the calls of the runs of concurrent searches: one query with two values of
\* k, and another query
SearchRequests ==
    {[question |-> <<"s", "p", "y", "?">>, k |-> MaxK],
     [question |-> <<"s", "p", "y", "?">>, k |-> DefaultK],
     [question |-> <<"u", "p", " ", "d", "o", "w">>, k |-> MaxK]}

\* the process after a first request has constructed the retriever over a
\* corpus of MaxChunks chunks, with no generation configured (LLM_PROVIDER=off,
\* as tests/test_smoke.py sets it); every thread is free.  search does not
\* read vocab: one numbering of the terms stands for all
InitSearch ==
    /\ store = [exists |-> TRUE, readable |-> TRUE, lines |-> Corpus(MaxChunks)]
    /\ env \in {e \in LlmEnvs : ~is_configured(e)}
    /\ \E vocab \in {CHOOSE v \in VocabOrders(StoreTokenized(store)) : TRUE} :
        heap = <<_load(NewRetriever(AgentAlpha), store, vocab).self>>
    /\ _RETRIEVER = 1
    /\ constructed = {1}
    /\ handed = {1}
    /\ pc = [t \in Threads |-> "idle"]
    /\ req = [t \in Threads |-> NoRequest]
    /\ self = [t \in Threads |-> 0]
    /\ ret = [t \in Threads |-> 0]
    /\ results = [t \in Threads |-> <<>>]
    /\ resp = [t \in Threads |-> None]
    /\ exc = [t \in Threads |-> "none"]
    /\ gen_calls = [t \in Threads |-> 0]
    /\ gen_failure = [t \in Threads |-> "none"]
    /\ argsort_ties \in Arrangements(Len(StoreTokenized(store)))
    /\ calls = 0
    /\ scoring = NoScoring

\* the threads of the server, serving retrieval questions at the same time
NextSearch ==
    \E t \in Threads :
        \/ CallRagUpTo(t, SearchRequests, MaxSearches)
        \/ GetCheck(t)
        \/ Return(t)
        \/ Search(t)
        \/ Compose(t)
        \/ Finish(t)

SpecSearch == InitSearch /\ [][NextSearch]_vars

\* ------------------------------------------------------------------------
\* The scoring lines of search (retriever.py, normalize and the fusion) on
\* raw score arrays of their own
\* ------------------------------------------------------------------------
\* the length of the longest raw score array
MaxScores == 2

\* the unit of the raw scores of these runs: one is 1/FineUnit = 5e-10, half
\* of the threshold of normalize
FineUnit == 2 * EpsInv

\* raw scores: negative, zero, below the threshold, at it, and far above it
RawValues == {0 - 1, 0, 1, 2, FineUnit \div ScoreScale}

\* the arrays of at most n raw scores
RawArrays(n) == UNION {[1..m -> RawValues] : m \in 0..n}

\* alpha: pure TF-IDF, the agent's weight, pure BM25
Alphas == {0, AgentAlpha, ScoreScale}

\* bm25_scores and tfidf_scores of one length, before normalize
InitScoring ==
    /\ InitServer
    /\ ~store.exists
    /\ ~is_configured(env)
    /\ scoring \in {r \in [pc : {"raw"},
                           alpha : Alphas,
                           bm25_scores : RawArrays(MaxScores),
                           tfidf_scores : RawArrays(MaxScores),
                           bm25_n : {<<>>},
                           tfidf_n : {<<>>},
                           hybrid : {<<>>}] :
                        Len(r.bm25_scores) = Len(r.tfidf_scores)}

\* bm25_n = normalize(...); tfidf_n = normalize(tfidf_scores)
Normalize ==
    /\ scoring.pc = "raw"
    /\ scoring' = [scoring EXCEPT !.pc = "normalized",
                                  !.bm25_n = normalize_at(scoring.bm25_scores, FineUnit),
                                  !.tfidf_n = normalize_at(scoring.tfidf_scores, FineUnit)]
    /\ UNCHANGED <<store, env, _RETRIEVER, heap, constructed, handed, pc, req, self,
                   ret, results, resp, exc, gen_calls, gen_failure, argsort_ties, calls>>

\* hybrid = self.alpha * bm25_n + (1.0 - self.alpha) * tfidf_n
Fusion ==
    /\ scoring.pc = "normalized"
    /\ scoring' = [scoring EXCEPT !.pc = "done",
                                  !.hybrid = Fuse(scoring.alpha, scoring.bm25_n, scoring.tfidf_n)]
    /\ UNCHANGED <<store, env, _RETRIEVER, heap, constructed, handed, pc, req, self,
                   ret, results, resp, exc, gen_calls, gen_failure, argsort_ties, calls>>

NextScoring == Normalize \/ Fusion

SpecScoring == InitScoring /\ [][NextScoring]_vars

\* ------------------------------------------------------------------------
\* Claims
\* ------------------------------------------------------------------------
\* the thread is on the retrieval path, past _get_retriever
PastGetRetriever(t) == pc[t] \in {"search", "compose", "done", "raised"} /\ ret[t] # 0

\* the thread holds the result of its search
HasResults(t) == pc[t] \in {"compose", "done", "raised"} /\ ret[t] # 0

\* C1: concurrent first calls of _get_retriever construct the retriever
\* exactly once, and every caller receives the same, fully constructed
\* instance.
C1_SingleConstruction ==
    /\ Len(heap) <= 1
    /\ Cardinality(handed) <= 1
    /\ handed \subseteq constructed
    /\ \A t, u \in Threads : (ret[t] # 0 /\ ret[u] # 0) => ret[t] = ret[u]

\* the corpus store makes _load fail: it cannot be read, or a line of it
\* cannot be parsed
StoreFails == store.exists /\ (~store.readable \/ FirstBadLine(store.lines) # 0)

\* C2: when loading the corpus fails, no caller sees the failure: the call
\* goes on with an initialised singleton whose corpus is empty, and its
\* search returns nothing.
C2_FailedLoadLeavesEmptyIndex ==
    StoreFails =>
        \A t \in Threads :
            (pc[t] \in {"search", "compose", "done", "raised"}
                /\ ~_is_price_query(req[t].question))
            => /\ exc[t] = "none"
               /\ _RETRIEVER # 0
               /\ _RETRIEVER \in constructed
               /\ heap[_RETRIEVER].chunks = <<>>
               /\ (pc[t] \in {"compose", "done"} => results[t] = <<>>)

\* C3: a generation call that fails does not fail answer: the call returns
\* the extractive answer, with the citations built from the evidence.
C3_GenerationFailureFallsBack ==
    \A t \in Threads :
        gen_failure[t] # "none"
        => /\ pc[t] = "done"
           /\ exc[t] = "none"
           /\ resp[t] # None
           /\ resp[t].answer = ExtractiveText(results[t])
           /\ resp[t].citations = CitationsOf(results[t])

\* the thread has returned an answer of the generation branch
GeneratedAnswer(t) ==
    /\ pc[t] = "done"
    /\ resp[t] # None
    /\ resp[t].route = "rag+llm"

\* C4: the sanitized text holds no bracketed token whose inner text is not an
\* allowed tag.
C4_OnlyAllowedTagsRemain ==
    \A t \in Threads :
        GeneratedAnswer(t)
        => LET found == Bracketed(resp[t].answer, 1)
           IN \A i \in 1..Len(found) : found[i].inner \in Range(TagsOf(results[t]))

\* C5: with evidence, the answer of the generation branch holds at least one
\* bracketed allowed tag, whatever text the generator returned.
C5_AnswerCarriesAllowedTag ==
    \A t \in Threads :
        GeneratedAnswer(t)
        => \E i \in 1..Len(results[t]) :
                Contains(resp[t].answer, Bracket(Tag(results[t][i])))

\* the (source, start, end) of a search result or of a citation
Triple(r) == <<r.source, r.start, r.end>>

\* C6: every citation of a response is the triple of a chunk that the call's
\* search returned, or the price-tool sentinel; on the retrieval path the
\* citations are the returned chunks' triples in rank order and the sources
\* their distinct source identifiers, so with evidence there are citations.
C6_CitationsFromEvidence ==
    \A t \in Threads :
        resp[t] # None
        => LET r == resp[t]
               evidence == {Triple(results[t][j]) : j \in 1..Len(results[t])}
           IN /\ \A i \in 1..Len(r.citations) :
                    Triple(r.citations[i]) \in evidence \cup {<<PRICE_SOURCE, 0, 0>>}
              /\ r.route # "price"
                 => /\ Len(r.citations) = Len(results[t])
                    /\ \A i \in 1..Len(r.citations) :
                            Triple(r.citations[i]) = Triple(results[t][i])
                    /\ Range(r.sources) = {results[t][j].source : j \in 1..Len(results[t])}
                    /\ Len(r.sources) = Cardinality(Range(r.sources))
                    /\ (Len(results[t]) > 0 => Len(r.citations) > 0)

\* C6 witness: a generated answer over two chunks of one source, whose text
\* does not cite the second chunk
C6_Witness ==
    \E t \in Threads :
        /\ GeneratedAnswer(t)
        /\ Len(results[t]) >= 2
        /\ Len(resp[t].citations) > Len(resp[t].sources)
        /\ ~Contains(resp[t].answer, Bracket(Tag(results[t][2])))

\* C7: when search returns nothing, answer returns the fixed no-context answer
\* with no citations and no sources, and makes no generation call.
C7_NoEvidenceNoGeneration ==
    \A t \in Threads :
        (HasResults(t) /\ pc[t] # "compose" /\ Len(results[t]) = 0)
        => /\ pc[t] = "done"
           /\ gen_calls[t] = 0
           /\ resp[t].answer = NO_CONTEXT
           /\ resp[t].citations = <<>>
           /\ resp[t].sources = <<>>

\* C7 witness: generation is configured, the corpus has chunks, and the
\* search returned nothing
C7_Witness ==
    \E t \in Threads :
        /\ pc[t] = "done"
        /\ ret[t] # 0
        /\ Len(results[t]) = 0
        /\ is_configured(env)
        /\ Len(heap[ret[t]].chunks) > 0

\* C8: search returns at most k results, and none when k <= 0.
C8_AtMostK ==
    \A t \in Threads :
        HasResults(t)
        => /\ Len(results[t]) <= (IF req[t].k > 0 THEN req[t].k ELSE 0)
           /\ (req[t].k <= 0 => results[t] = <<>>)

\* the corpus file is absent, or holds no line
StoreEmpty == ~store.exists \/ (store.readable /\ Len(store.lines) = 0)

\* C9: with the corpus file absent or empty, construction succeeds with empty
\* chunks and statistics, and every search returns nothing without raising.
C9_EmptyCorpusIsSafe ==
    StoreEmpty =>
        /\ \A t \in Threads : pc[t] # "raised" /\ exc[t] = "none"
        /\ \A t \in Threads : pc[t] \in {"assign", "return"} /\ self[t] # 0
                                => self[t] \in constructed
        /\ \A i \in constructed :
            /\ heap[i].chunks = <<>>
            /\ heap[i].tokenized_corpus = <<>>
            /\ ~heap[i].bm25.present
            /\ DOMAIN heap[i].idf = {}
            /\ DOMAIN heap[i].vocab = {}
            /\ heap[i].doc_tfidf = <<>>
        /\ \A t \in Threads : HasResults(t) => results[t] = <<>>

\* C9 witness: the file is absent, the retriever was constructed, and a
\* search for the default k has returned
C9_Witness ==
    /\ ~store.exists
    /\ \E t \in Threads :
        /\ pc[t] = "compose"
        /\ ret[t] \in constructed
        /\ req[t].k = DefaultK

\* the position in the corpus of the chunk a search result shows
ChunkIndex(retriever, r) ==
    CHOOSE i \in 1..Len(retriever.chunks) : Triple(retriever.chunks[i]) = Triple(r)

\* chunk i ranks before chunk j: a higher hybrid score, or the same score and
\* loaded earlier
RanksBefore(hybrid, i, j) ==
    hybrid[i] > hybrid[j] \/ (hybrid[i] = hybrid[j] /\ i < j)

\* C10: for a non-empty corpus and k >= 1, search returns the min(k, n)
\* chunks of highest hybrid score in descending order, chunks of equal score
\* in corpus order, inside the result and at the cut-off.
C10_TopKStableOrder ==
    \A t \in Threads :
        (HasResults(t) /\ req[t].k >= 1 /\ Len(heap[ret[t]].chunks) > 0)
        => LET retriever == heap[ret[t]]
               n == Len(retriever.chunks)
               hybrid == Scores(retriever, req[t].question).hybrid
               idx == [j \in 1..Len(results[t]) |-> ChunkIndex(retriever, results[t][j])]
           IN /\ Len(results[t]) = (IF req[t].k < n THEN req[t].k ELSE n)
              /\ \A j \in 1..Len(idx) : results[t][j].score = hybrid[idx[j]]
              /\ \A i, j \in 1..Len(idx) : i < j => RanksBefore(hybrid, idx[i], idx[j])
              /\ \A c \in (1..n) \ Range(idx) :
                    \A j \in 1..Len(idx) : RanksBefore(hybrid, idx[j], c)

\* the query shares a term with the text
SharesTerm(query, text) == Range(tokenize(query)) \cap Range(tokenize(text)) # {}

\* C11: on a corpus of exactly one chunk, search with a query that shares a
\* term with the chunk and k >= 1 returns exactly that chunk, with hybrid
\* score 1.0.
C11_SingleChunkScoresOne ==
    \A t \in Threads :
        (/\ HasResults(t)
         /\ Len(heap[ret[t]].chunks) = 1
         /\ req[t].k >= 1
         /\ SharesTerm(req[t].question, heap[ret[t]].chunks[1].text))
        => /\ Len(results[t]) = 1
           /\ Triple(results[t][1]) = Triple(heap[ret[t]].chunks[1])
           /\ results[t][1].score = ScoreScale

\* the question holds a price keyword as a whole word, in either case
HasPriceKeyword(q) ==
    \E w \in PriceKeywords :
        \E i \in 1..Len(q) :
            /\ i + Len(w) - 1 <= Len(q)
            /\ Lower(SubSeq(q, i, i + Len(w) - 1)) = w
            /\ (i > 1 => q[i - 1] \notin WordCharSet)
            /\ (i + Len(w) <= Len(q) => q[i + Len(w)] \notin WordCharSet)

\* C12: a question with a price keyword as a whole word, in either case, is
\* answered with route "price" and the price-tool source, without a step into
\* the retriever or the generator; any other question takes the retrieval
\* path, and its response has route "rag" or "rag+llm".
C12_RoutingIsBinary ==
    \A t \in Threads :
        pc[t] # "idle"
        => IF HasPriceKeyword(req[t].question)
           THEN /\ pc[t] = "done"
                /\ resp[t].route = "price"
                /\ resp[t].used_tools = <<"prices_tool">>
                /\ PRICE_SOURCE \in Range(resp[t].sources)
                /\ ret[t] = 0 /\ self[t] = 0
                /\ results[t] = <<>>
                /\ gen_calls[t] = 0
                /\ (calls = 1 => heap = <<>> /\ _RETRIEVER = 0)
           ELSE /\ pc[t] \in {"search", "compose", "done"} => ret[t] # 0
                /\ resp[t] # None
                   => /\ pc[t] = "done"
                      /\ resp[t].route \in {"rag", "rag+llm"}
                      /\ resp[t].route = "rag+llm" <=> gen_calls[t] > 0

\* C12 witness: the first call of the process is answered on the price route,
\* for a keyword written in upper case, and no retriever exists
C12_Witness ==
    /\ calls = 1
    /\ pc[1] = "done"
    /\ req[1].question = <<"L", "O", "W", "?">>
    /\ resp[1].route = "price"
    /\ heap = <<>>

\* the symbol the questions name that the price tool does not know
UNKNOWN_SYMBOL == <<"X", "Y", "Z">>

\* the question names the unknown symbol
NamesUnknown(q) == Contains(q, UNKNOWN_SYMBOL)

\* C13: a price question that names a symbol the price tool does not know is
\* answered, without an exception, "No price data available for <symbol>."
\* with no citations and route "price", whichever pattern names the symbol.
C13_UnknownSymbolNoData ==
    \A t \in Threads :
        (pc[t] # "idle" /\ HasPriceKeyword(req[t].question) /\ NamesUnknown(req[t].question))
        => /\ pc[t] = "done"
           /\ exc[t] = "none"
           /\ resp[t].route = "price"
           /\ resp[t].citations = <<>>
           /\ resp[t].answer = <<"N", "o", " ", "p", "r", "i", "c", "e", " ", "d", "a", "t", "a", " ", "a", "v", "a", "i", "l", "a", "b", "l", "e", " ", "f", "o", "r", " ", "X", "Y", "Z", ".">>

IndexUnchanged(i) ==
    /\ heap'[i].chunks = heap[i].chunks
    /\ heap'[i].tokenized_corpus = heap[i].tokenized_corpus
    /\ heap'[i].idf = heap[i].idf
    /\ heap'[i].vocab = heap[i].vocab
    /\ heap'[i].doc_tfidf = heap[i].doc_tfidf
    /\ heap'[i].alpha = heap[i].alpha
    /\ heap'[i].bm25 = heap[i].bm25

\* C15: once construction has finished, no step of any call, search included,
\* changes chunks, tokenized_corpus, idf, vocab, doc_tfidf or alpha of the
\* instance, and doc_tfidf and tokenized_corpus have one entry per chunk.
C15_SearchLeavesIndex ==
    /\ [](\A i \in constructed :
            /\ Len(heap[i].tokenized_corpus) = Len(heap[i].chunks)
            /\ Len(heap[i].doc_tfidf) = Len(heap[i].chunks))
    /\ [][\A i \in constructed : IndexUnchanged(i)]_vars

\* C15 witness: two threads have searched the same index of several chunks,
\* after an earlier call
C15_Witness ==
    /\ calls = 3
    /\ HasResults(1) /\ HasResults(2)
    /\ ret[1] = ret[2]
    /\ req[1] # req[2]
    /\ Len(heap[ret[1]].chunks) > 1
    /\ Len(results[1]) > 0 /\ Len(results[2]) > 0

\* the spread d of a raw score array, counted in 1/FineUnit, is below 1e-9
BelowEps(d) == d < FineUnit \div EpsInv

\* out is in 0..1, all zeros when the raw scores are within 1e-9 of each
\* other, and else 0 at the minimum of raw and 1 at its maximum
NormalizedWithEps(raw, out) ==
    /\ Len(out) = Len(raw)
    /\ \A i \in 1..Len(out) : out[i] >= 0 /\ out[i] <= ScoreScale
    /\ Len(raw) > 0
       => IF BelowEps(MaxSeq(raw) - MinSeq(raw))
          THEN \A i \in 1..Len(out) : out[i] = 0
          ELSE \A i \in 1..Len(out) :
                /\ raw[i] = MinSeq(raw) => out[i] = 0
                /\ raw[i] = MaxSeq(raw) => out[i] = ScoreScale

\* out is in 0..1, all zeros when the raw scores are all equal, and else 0 at
\* the minimum of raw and 1 at its maximum
NormalizedExact(raw, out) ==
    /\ Len(out) = Len(raw)
    /\ \A i \in 1..Len(out) : out[i] >= 0 /\ out[i] <= ScoreScale
    /\ Len(raw) > 0
       => IF MaxSeq(raw) = MinSeq(raw)
          THEN \A i \in 1..Len(out) : out[i] = 0
          ELSE \A i \in 1..Len(out) :
                /\ raw[i] = MinSeq(raw) => out[i] = 0
                /\ raw[i] = MaxSeq(raw) => out[i] = ScoreScale

\* every hybrid score of the run is in 0..1
HybridInRange ==
    /\ Len(scoring.hybrid) = Len(scoring.bm25_scores)
    /\ \A i \in 1..Len(scoring.hybrid) :
        scoring.hybrid[i] >= 0 /\ scoring.hybrid[i] <= ScoreScale

\* C16, amended: every element of normalize's output is in [0, 1]; when the
\* raw scores lie within 1e-9 of each other (max - min < 1e-9: equal scores,
\* the all-zero and the one-element array included) the output is all zeros,
\* and otherwise the minimum maps to 0 and the maximum to 1; so every hybrid
\* score with alpha in [0, 1] is in [0, 1].
C16_NormalizeWithinUnit ==
    /\ scoring.pc \in {"normalized", "done"}
       => /\ NormalizedWithEps(scoring.bm25_scores, scoring.bm25_n)
          /\ NormalizedWithEps(scoring.tfidf_scores, scoring.tfidf_n)
    /\ scoring.pc = "done" => HybridInRange

\* C16 witness: one array whose scores differ by less than 1e-9 and one whose
\* scores differ by more, normalized and fused with the agent's alpha
C16_Witness ==
    /\ scoring.pc = "done"
    /\ scoring.alpha = AgentAlpha
    /\ Len(scoring.bm25_scores) = MaxScores
    /\ MaxSeq(scoring.bm25_scores) - MinSeq(scoring.bm25_scores) = 1
    /\ MaxSeq(scoring.tfidf_scores) - MinSeq(scoring.tfidf_scores) >= 2
    /\ MaxSeq(scoring.hybrid) > 0

\* C16 as stated: all zeros exactly when all raw scores are equal, and the
\* minimum to 0 and the maximum to 1 for every other array.
C16_NormalizeExactTies ==
    /\ scoring.pc \in {"normalized", "done"}
       => /\ NormalizedExact(scoring.bm25_scores, scoring.bm25_n)
          /\ NormalizedExact(scoring.tfidf_scores, scoring.tfidf_n)
    /\ scoring.pc = "done" => HybridInRange

====
